---- MODULE Spec2Model ----
(***************************************************************************)
(* Model of gp-sphinx.py: GPeasantSphinx pulls the gubernia / uezd /       *)
(* volost / locality hierarchy from the gpeasant database and writes one   *)
(* reStructuredText index document per node below <cwd>/gp/pages.          *)
(*                                                                         *)
(* Text values.  A Python str is modelled as a sequence of lines (the      *)
(* pieces between '\n' characters); a line is a sequence of atoms, an atom *)
(* is a non-empty run of characters that the program never looks inside.   *)
(*   ""       is << <<>> >>            (one line holding nothing)          *)
(*   "ab"     is << <<"ab">> >>                                            *)
(*   "a\nb"   is << <<"a">>, <<"b">> >>                                    *)
(*   "a\n"    is << <<"a">>, <<>> >>                                       *)
(* The Cyrillic literals of the source are transliterated.                 *)
(***************************************************************************)
EXTENDS Integers, Sequences, FiniteSets, TLC

VARIABLES db, dirs, files, stack, status, runs

vars == <<db, dirs, files, stack, status, runs>>

(***************************************************************************)
(* Bounds of the model.                                                    *)
(***************************************************************************)
\* total number of gubernia + uezd + volost + locality rows in the store
MaxNodes == 5
\* number of count rows of one locality
MaxCounts == 2
\* number of times the program is started one after the other
MaxRuns == 2

\* SQL NULL / Python None; no str equals it (a str has at least one line)
NULL == <<>>

(***************************************************************************)
(* str primitives                                                          *)
(***************************************************************************)
EmptyStr == << <<>> >>

Lit(a) == IF a = "" THEN EmptyStr ELSE << <<a>> >>

NL == << <<>>, <<>> >>

\* s + t
StrCat(s, t) ==
    SubSeq(s, 1, Len(s) - 1) \o << s[Len(s)] \o t[1] >> \o Tail(t)

RECURSIVE StrRep(_, _)
\* a * n
StrRep(a, n) == IF n <= 0 THEN "" ELSE a \o StrRep(a, n - 1)

RECURSIVE AtomsLen(_)
AtomsLen(line) == IF line = <<>> THEN 0 ELSE Len(Head(line)) + AtomsLen(Tail(line))

\* len(s) of a one-line str
StrLen(s) == AtomsLen(s[1])

WhiteAtoms == {" ", "   ", "       "}

\* line.strip() == ''
IsBlank(line) == \A k \in DOMAIN line : line[k] \in WhiteAtoms

Margin3 == "   "

\* textwrap.indent(text, prefix): the prefix goes in front of every line that
\* does not consist solely of whitespace; what follows the last '\n' is a
\* line only if it is not empty.
Indent(text, prefix) ==
    [k \in DOMAIN text |->
        IF IsBlank(text[k]) THEN text[k] ELSE <<prefix>> \o text[k]]

format3(name) == Indent(name, Margin3)

Margin7 == "       "

RECURSIVE EscapeNewlines(_)
\* col.replace('\n', '\n\n       ')
EscapeNewlines(col) ==
    IF Len(col) <= 1 THEN col
    ELSE LET rest == EscapeNewlines(Tail(col))
         IN  << col[1], <<>> >> \o << <<Margin7>> \o rest[1] >> \o Tail(rest)

\* str(n)
Str(n) == Lit(ToString(n))

format_header(name) ==
    StrCat(StrCat(name, NL), Lit(StrRep("=", StrLen(name))))

format_note(note) ==
    StrCat(<< <<".. note:: ">>, <<>>, <<>> >>, format3(note))


\* ' '.join(words)
RECURSIVE Join(_)
Join(words) ==
    IF words = <<>> THEN <<>>
    ELSE IF Len(words) = 1 THEN <<words[1]>>
    ELSE <<words[1], " ">> \o Join(Tail(words))

\* name.split() of a one-line name: the runs of non-whitespace
Split(name) == SelectSeq(name[1], LAMBDA a : a \notin WhiteAtoms)

\* ' '.join(l_name.split()[1:])
index_of(l_name) ==
    LET words == Split(l_name)
    IN  IF words = <<>> THEN EmptyStr ELSE << Join(Tail(words)) >>

(***************************************************************************)
(* Templates (after textwrap.dedent) and str.format                        *)
(***************************************************************************)
tree_templ ==
    << <<>>,
       <<".. Tree RST template">>,
       <<".. Autogenerated by gp-sphinx.py">>,
       <<>>,
       <<"{_title_}">>,
       <<>>,
       <<".. toctree::">>,
       <<"   :maxdepth: ", "{_maxdepth_}">>,
       <<>>,
       <<"{_members_}">>,
       <<>>,
       <<>> >>

datasheet_head ==
    << <<>>,
       <<".. Datasheet RST template">>,
       <<".. Autogenerated by gp-sphinx.py">>,
       <<>>,
       <<".. index:: ", "{_index_}">>,
       <<>>,
       <<"{_title_}">>,
       <<>>,
       <<"Selskoe obshchestvo">>,
       <<"-----------------">>,
       <<"{_socname_}">>,
       <<>>,
       <<"Svedeniya o gosudarstvennykh krestyanakh">>,
       <<"--------------------------------------">>,
       <<>> >>

datasheet_templ ==
    datasheet_head \o
    << <<".. list-table::">>,
       <<"   :header-rows: 1">>,
       <<"   :widths: 10 70 20">>,
       <<>>,
       <<"   * - #">>,
       <<"     - Kategoriya krestyan">>,
       <<"     - Kolichestvo dush m.p.">>,
       <<>>,
       <<"{_datasheet_}">>,
       <<>>,
       <<>> >>

NoDataSentence ==
    "V okladnoy vedomosti svedeniya o chisle gosudarstvennykh krestyan otsutstvuyut."

datasheet_empty_templ ==
    datasheet_head \o << <<NoDataSentence>>, <<>>, <<>> >>

root_title == Lit("Administrativno-territorialnoe delenie")

undefined_label == Lit("V okladnoy vedomosti ne ukazano")

index_filename == "index.rst"

RECURSIVE SubstLine(_, _)
\* one template line with its replacement fields filled in
SubstLine(line, args) ==
    IF line = <<>> THEN EmptyStr
    ELSE StrCat(IF Head(line) \in DOMAIN args THEN args[Head(line)]
                                              ELSE Lit(Head(line)),
                SubstLine(Tail(line), args))

RECURSIVE FormatLines(_, _, _, _)
\* the template lines lo..hi with their fields filled in, joined by '\n'
FormatLines(templ, args, lo, hi) ==
    IF lo = hi THEN SubstLine(templ[lo], args)
    ELSE LET mid == (lo + hi) \div 2
         IN  StrCat(StrCat(FormatLines(templ, args, lo, mid), NL),
                    FormatLines(templ, args, mid + 1, hi))

\* templ.format(**args)
Format(templ, args) == FormatLines(templ, args, 1, Len(templ))

(***************************************************************************)
(* The store.  db is the content of the gpeasant database, which the       *)
(* program only reads.  society_id = 0 is a NULL foreign key.              *)
(***************************************************************************)
\* the collation of the store orders names by their distinguishing word
Alphabet == <<"Alfa", "Beta", "Gamma">>

WordOf(id) == Alphabet[((2 * id) % 3) + 1]

NameOf(table, id) ==
    CASE table = "gubernia" -> << <<WordOf(id), " ", "guberniya">> >>
      [] table = "uezd"     -> << <<WordOf(id), " ", "uezd">> >>
      [] table = "volost"   -> << <<WordOf(id), " ", "volost">> >>
      [] table = "locality" -> << <<"s.", " ", WordOf(id)>> >>

NameKey(name) ==
    CHOOSE k \in DOMAIN Alphabet : \E j \in DOMAIN name[1] : name[1][j] = Alphabet[k]

society == { [id |-> 1, name |-> Lit("Alfinskoe obshchestvo")],
             [id |-> 2, name |-> EmptyStr],
             [id |-> 3, name |-> NULL] }

\* category ids are not in name order
category == { [id |-> 1, name |-> Lit("Kategoriya Y"), key |-> 2],
              [id |-> 2, name |-> Lit("Kategoriya X"), key |-> 1],
              [id |-> 3, name |-> Lit("Kategoriya Z"), key |-> 3] }

CategoryIds == {c.id : c \in category}

Comments == { NULL, EmptyStr, Lit("estimated"),
              << <<"estimated">>, <<"see ledger">> >> }

\* the recorded count of a (locality, category) pair
CountOf(l_id, c_id) == IF c_id = 2 THEN 5 ELSE IF c_id = 1 THEN 3 ELSE 40 + l_id

RECURSIVE SortBy(_)
\* ORDER BY: the rows of a set of <<rank, row>> pairs, ascending by rank
SortBy(ranked) ==
    IF ranked = {} THEN <<>>
    ELSE LET first == CHOOSE r \in ranked : \A q \in ranked : r[1] <= q[1]
         IN  <<first[2]>> \o SortBy(ranked \ {first})

\* ORDER BY name; rows with equal names come back in the order of their ids
NameRank(r) == NameKey(r.name) * 1000 + r.id

OrderByName(rows) ==
    SortBy({ <<NameRank(r), [id |-> r.id, name |-> r.name]>> : r \in rows })

\* SELECT id, name FROM gubernia ORDER BY name
select_gubernias(d) == OrderByName(d.gubernia)

\* SELECT id, name FROM uezd WHERE gub_id=? ORDER BY name
select_uezds(d, g_id) == OrderByName({x \in d.uezd : x.gub_id = g_id})

\* SELECT id, name FROM volost WHERE uezd_id=? ORDER BY name
select_volosts(d, u_id) == OrderByName({x \in d.volost : x.uezd_id = u_id})

\* SELECT id, name FROM locality WHERE volost_id=? ORDER BY name
select_localities(d, v_id) == OrderByName({x \in d.locality : x.volost_id = v_id})

\* SELECT society.name FROM locality LEFT JOIN society ... WHERE locality.id=?
\* followed by fetchall()[0][0]
select_society_name(d, l_id) ==
    LET loc == CHOOSE x \in d.locality : x.id = l_id
    IN  IF \E s \in society : s.id = loc.society_id
        THEN (CHOOSE s \in society : s.id = loc.society_id).name
        ELSE NULL

\* SELECT category.name, count.count, count.comment FROM count
\* LEFT JOIN category ... WHERE count.locality_id=? ORDER BY category.name
select_counts(d, l_id) ==
    SortBy({ <<rc[2].key, [category |-> rc[2].name, count |-> rc[1].count,
                           comment |-> rc[1].comment]>> :
                rc \in { x \in d.count \X category :
                           /\ x[1].locality_id = l_id
                           /\ x[1].category_id = x[2].id } })

(***************************************************************************)
(* Paths and the file system.  A path is its list of components and        *)
(* whether it is absolute; dirs and the domain of files hold absolute      *)
(* paths below the working directory, which is <<>>.                       *)
(***************************************************************************)
AbsPath(segs) == [abs |-> TRUE, segs |-> segs]

RelPath(seg) == [abs |-> FALSE, segs |-> <<seg>>]

\* os.path.join(a, b): an absolute b discards a
pj(a, b) == IF b.abs THEN b ELSE [abs |-> a.abs, segs |-> a.segs \o b.segs]

\* os.path.join(os.path.abspath(os.getcwd()), 'gp', 'pages')
root_dir == AbsPath(<<"gp", "pages">>)

IsPrefix(a, b) == Len(a) <= Len(b) /\ SubSeq(b, 1, Len(a)) = a

Parent(p) == SubSeq(p, 1, Len(p) - 1)

\* the ancestors of p, p excluded, that do not exist yet, outermost first
Missing(ds, p) ==
    LET n == Cardinality({k \in 0..(Len(p) - 1) : SubSeq(p, 1, k) \notin ds})
    IN  [j \in 1..n |-> SubSeq(p, 1, Len(p) - 1 - n + j)]

\* os.makedirs(p) succeeding: the missing ancestors and p itself
makedirs_ok(ds, p) == ds \cup {SubSeq(p, 1, k) : k \in 0..Len(p)}

\* makedirs_raise removing the output tree before the exit
makedirs_raise_cleanup(ds, p, k) == {q \in ds : ~IsPrefix(<<"gp", "pages">>, q)}

\* os.makedirs(p) raising OSError after it created the k outermost missing
\* ancestors
makedirs_raise(ds, p, k) == ds \cup {Missing(ds, p)[j] : j \in 1..k}

\* clear_dirs that leaves the tree in place
clear_dirs_keep(ds) == ds

\* shutil.rmtree(self.root_dir) if it exists
clear_dirs(ds) ==
    IF root_dir.segs \in ds THEN {p \in ds : ~IsPrefix(root_dir.segs, p)} ELSE ds

clear_files(ds, fs) ==
    IF root_dir.segs \in ds
    THEN [p \in {q \in DOMAIN fs : ~IsPrefix(root_dir.segs, q)} |-> fs[p]]
    ELSE fs

\* open(fn, 'w+'); write; close
write_ok(fs, p, rst) == [q \in DOMAIN fs \cup {p} |-> IF q = p THEN rst ELSE fs[q]]

(***************************************************************************)
(* Rendering                                                               *)
(***************************************************************************)
\* col = str(col).replace('\n', '\n\n       ') or '' for None; cols holds what
\* str(col) gives for each column, or NULL
cell_of(col) == IF col # NULL THEN EscapeNewlines(col) ELSE EmptyStr

RECURSIVE add_cols(_, _, _)
\* the loop of format_table_row over cols[k..]
add_cols(_row, cols, k) ==
    IF k > Len(cols) THEN _row
    ELSE add_cols(StrCat(_row,
                         format3(StrCat(StrCat(Lit("  - "), cell_of(cols[k])), NL))),
                  cols, k + 1)

format_table_row(cols, counter) ==
    add_cols(format3(StrCat(StrCat(Lit("* - "), Str(counter)), NL)), cols, 1)

\* the count column of a row: f'{str(count)}*' when the row has a comment
count_col(r) ==
    IF r.comment # NULL THEN StrCat(Str(r.count), Lit("*")) ELSE Str(r.count)

RECURSIVE table_skipping(_, _, _)
table_skipping(catcount, k, counter) ==
    IF k > Len(catcount) THEN EmptyStr
    ELSE StrCat(format_table_row(<<catcount[k].category, count_col(catcount[k])>>,
                                 counter),
                table_skipping(catcount, k + 1,
                               IF catcount[k].comment # NULL THEN counter
                                                             ELSE counter + 1))

\* build_table with `counter += 1` skipped on the rows that have a comment
build_table_skipping(catcount, counter) == table_skipping(catcount, counter, counter)

RECURSIVE build_table(_, _)
\* the loop of __gen_datasheets over catcount[counter..]
build_table(catcount, counter) ==
    IF counter > Len(catcount) THEN EmptyStr
    ELSE StrCat(format_table_row(<<catcount[counter].category,
                                   count_col(catcount[counter])>>, counter),
                build_table(catcount, counter + 1))

\* comments, in the order of the rows they come from
collect_comments(catcount) ==
    LET with == SelectSeq(catcount, LAMBDA r : r.comment # NULL)
    IN  [k \in DOMAIN with |-> with[k].comment]

RECURSIVE build_comment_txt(_, _)
build_comment_txt(comments, comment_counter) ==
    IF comment_counter > Len(comments) THEN EmptyStr
    ELSE StrCat(StrCat(StrCat(<< <<"(", ToString(comment_counter), "*) ">> >>,
                              comments[comment_counter]),
                       << <<>>, <<>>, <<>> >>),
                build_comment_txt(comments, comment_counter + 1))

build_datasheet(catcount) ==
    LET table == build_table(catcount, 1)
        comments == collect_comments(catcount)
    IN  IF Len(comments) > 0
        THEN StrCat(StrCat(table, << <<>>, <<>>, <<>> >>),
                    format_note(build_comment_txt(comments, 1)))
        ELSE table

\* socname_of with `if soc_name is None` for `if not soc_name`
socname_of_none_only(soc_name) ==
    StrCat(IF soc_name = NULL THEN undefined_label ELSE soc_name, Lit("."))

\* soc_name as rendered: the label stands in for None and for ''
socname_of(soc_name) ==
    StrCat(IF soc_name = NULL \/ soc_name = EmptyStr THEN undefined_label
                                                      ELSE soc_name,
           Lit("."))

\* datasheet_rst without the branch for an empty catcount
datasheet_rst_one_template(l_name, soc_name, catcount) ==
    Format(datasheet_templ,
           [a \in {"{_index_}", "{_title_}", "{_socname_}", "{_datasheet_}"} |->
               CASE a = "{_index_}"     -> index_of(l_name)
                 [] a = "{_title_}"     -> format_header(l_name)
                 [] a = "{_socname_}"   -> StrCat(IF soc_name = NULL \/ soc_name = EmptyStr
                                                  THEN undefined_label ELSE soc_name,
                                                  Lit("."))
                 [] a = "{_datasheet_}" -> build_datasheet(catcount)])

\* the document __gen_datasheets writes
datasheet_rst(l_name, soc_name, catcount) ==
    IF catcount # <<>>
    THEN Format(datasheet_templ,
                [a \in {"{_index_}", "{_title_}", "{_socname_}", "{_datasheet_}"} |->
                    CASE a = "{_index_}"     -> index_of(l_name)
                      [] a = "{_title_}"     -> format_header(l_name)
                      [] a = "{_socname_}"   -> socname_of(soc_name)
                      [] a = "{_datasheet_}" -> build_datasheet(catcount)])
    ELSE Format(datasheet_empty_templ,
                [a \in {"{_index_}", "{_title_}", "{_socname_}"} |->
                    CASE a = "{_index_}"   -> index_of(l_name)
                      [] a = "{_title_}"   -> format_header(l_name)
                      [] a = "{_socname_}" -> socname_of(soc_name)])

\* the document the four tree functions write
tree_rst(title, members, maxdepth) ==
    Format(tree_templ,
           [a \in {"{_title_}", "{_members_}", "{_maxdepth_}"} |->
               CASE a = "{_title_}"    -> format_header(title)
                 [] a = "{_members_}"  -> members
                 [] a = "{_maxdepth_}" -> Str(maxdepth)])

\* member_ref naming the directory of the child, not its index document
member_ref_dir(segment, id) ==
    format3(<< <<segment, "/", ToString(id)>>, <<>> >>)

\* format3(f'<segment>/<id>/index\n')
member_ref(segment, id) ==
    format3(<< <<segment, "/", ToString(id), "/", "index">>, <<>> >>)

(***************************************************************************)
(* The walk.  stack holds one frame per active __gen_* call: the fetched   *)
(* rows, the position of its for loop and the members list built so far.   *)
(* status is "init" before the first start, "running", or how the process  *)
(* ended: "exit0", "exit1" (make_dirs), or the uncaught exception.         *)
(***************************************************************************)
Segment(fn) ==
    CASE fn = "gubernias"  -> "gubernia"
      [] fn = "uezds"      -> "uezd"
      [] fn = "volosts"    -> "volost"
      [] fn = "localities" -> "locality"

Callee(fn) ==
    CASE fn = "gubernias" -> "uezds"
      [] fn = "uezds"     -> "volosts"
      [] fn = "volosts"   -> "localities"

MaxDepthOf(fn) == IF fn \in {"gubernias", "uezds"} THEN 2 ELSE 1

\* cur.execute(...); cur.fetchall() at the head of each __gen_* function
fetch(fn, id) ==
    CASE fn = "gubernias"  -> select_gubernias(db)
      [] fn = "uezds"      -> select_uezds(db, id)
      [] fn = "volosts"    -> select_volosts(db, id)
      [] fn = "localities" -> select_localities(db, id)

\* the frame of a call whose query has returned
Frame(fn, id, name, pdir) ==
    [fn |-> fn, id |-> id, name |-> name, pdir |-> pdir,
     rows |-> fetch(fn, id), i |-> 1, list |-> EmptyStr]

Top == stack[Len(stack)]

InLoop(fn) ==
    /\ status = "running"
    /\ stack # <<>>
    /\ Top.fn = fn
    /\ Top.i <= Len(Top.rows)

\* AfterLoop leaving the loop one row early
AfterLoop_early(fn) ==
    /\ status = "running"
    /\ stack # <<>>
    /\ Top.fn = fn
    /\ Top.i >= Len(Top.rows)

AfterLoop(fn) ==
    /\ status = "running"
    /\ stack # <<>>
    /\ Top.fn = fn
    /\ Top.i > Len(Top.rows)

\* child_dir_of without the segment between the parent and the id
child_dir_flat(f) == pj(f.pdir, RelPath(ToString(f.rows[f.i].id)))

\* child_dir = pj(pdir, '<segment>', str(id)) of the row the loop is at
child_dir_of(f) ==
    pj(pj(f.pdir, RelPath(Segment(f.fn))), RelPath(ToString(f.rows[f.i].id)))

\* what make_dirs and file_write open: os.path.join(self.root_dir, path)
Resolve(path) == pj(root_dir, path).segs

\* the stack after `_list += format3(...)` of the current iteration
WithMember(stk) ==
    LET f == stk[Len(stk)]
    IN  [stk EXCEPT ![Len(stk)].list =
            StrCat(f.list, member_ref(Segment(f.fn), f.rows[f.i].id))]

\* the stack after the callee of the current iteration has returned
Returned(stk) ==
    IF stk = <<>> THEN stk ELSE [stk EXCEPT ![Len(stk)].i = @ + 1]

\* the index document of the function whose loop is over, and where it goes
index_rst(f) == tree_rst(f.name, f.list, MaxDepthOf(f.fn))

index_path(f) ==
    IF f.fn = "gubernias" THEN pj(root_dir, RelPath(index_filename))
                           ELSE pj(f.pdir, RelPath(index_filename))

\* make_dirs(child_dir) raising: sys.exit(1)
MakeDirsFails(target) ==
    /\ \E k \in 0..Len(Missing(dirs, target)) :
           dirs' = makedirs_raise(dirs, target, k)
    /\ status' = "exit1"
    /\ stack' = WithMember(stack)
    /\ UNCHANGED <<db, files, runs>>

\* one iteration of the loop of __gen_gubernias, __gen_uezds or __gen_volosts:
\* the member reference, make_dirs, and the call of the next function
Descend(fn) ==
    /\ InLoop(fn)
    /\ LET row == Top.rows[Top.i]
           child_dir == child_dir_of(Top)
           target == Resolve(child_dir)
       IN  \/ /\ target \notin dirs
              /\ dirs' = makedirs_ok(dirs, target)
              /\ \/ /\ stack' = Append(WithMember(stack),
                                       Frame(Callee(fn), row.id, row.name, child_dir))
                    /\ status' = status
                 \/ /\ stack' = WithMember(stack)
                    /\ status' = "mariadb.Error"
              /\ UNCHANGED <<db, files, runs>>
           \/ MakeDirsFails(target)

\* the code after the loop: render the index document, write it, return
Finish(fn) ==
    /\ AfterLoop(fn)
    /\ LET target == Resolve(index_path(Top))
       IN  IF Parent(target) \in dirs
           THEN /\ files' = write_ok(files, target, index_rst(Top))
                /\ stack' = Returned(SubSeq(stack, 1, Len(stack) - 1))
                /\ status' = IF Len(stack) = 1 THEN "exit0" ELSE status
           ELSE /\ status' = "FileNotFoundError"
                /\ UNCHANGED <<files, stack>>
    /\ UNCHANGED <<db, dirs, runs>>

gen_gubernias_loop == Descend("gubernias")

gen_gubernias_end == Finish("gubernias")

gen_uezds_loop == Descend("uezds")

gen_uezds_end == Finish("uezds")

gen_volosts_loop == Descend("volosts")

gen_volosts_end == Finish("volosts")

\* one iteration of the loop of __gen_localities, __gen_datasheets included
gen_localities_loop ==
    /\ InLoop("localities")
    /\ LET row == Top.rows[Top.i]
           child_dir == child_dir_of(Top)
           target == Resolve(child_dir)
           sheet == Resolve(pj(child_dir, RelPath(index_filename)))
       IN  \/ /\ target \notin dirs
              /\ dirs' = makedirs_ok(dirs, target)
              /\ \/ IF Parent(sheet) \in dirs'
                    THEN /\ files' = write_ok(files, sheet,
                                        datasheet_rst(row.name,
                                                      select_society_name(db, row.id),
                                                      select_counts(db, row.id)))
                         /\ stack' = Returned(WithMember(stack))
                         /\ status' = status
                    ELSE /\ status' = "FileNotFoundError"
                         /\ stack' = WithMember(stack)
                         /\ files' = files
                 \/ /\ stack' = WithMember(stack)
                    /\ status' = "mariadb.Error"
                    /\ files' = files
              /\ UNCHANGED <<db, runs>>
           \/ MakeDirsFails(target)

gen_localities_end == Finish("localities")

\* main(): a start of the program; generate() clears and calls __gen_gubernias
generate ==
    /\ status # "running"
    /\ runs < MaxRuns
    /\ runs' = runs + 1
    /\ dirs' = clear_dirs(dirs)
    /\ files' = clear_files(dirs, files)
    /\ \/ /\ stack' = <<Frame("gubernias", 0, root_title, root_dir)>>
          /\ status' = "running"
       \/ /\ stack' = <<>>
          /\ status' = "mariadb.Error"
    /\ UNCHANGED db

Next ==
    \/ generate
    \/ gen_gubernias_loop
    \/ gen_gubernias_end
    \/ gen_uezds_loop
    \/ gen_uezds_end
    \/ gen_volosts_loop
    \/ gen_volosts_end
    \/ gen_localities_loop
    \/ gen_localities_end

(***************************************************************************)
(* Initial states: a store and what the working directory holds.           *)
(***************************************************************************)
PagesDir == root_dir.segs

StaleFs ==
    [dirs |-> {<<>>, <<"gp">>, PagesDir, PagesDir \o <<"gubernia">>,
               PagesDir \o <<"gubernia", "1">>},
     files |-> [p \in {PagesDir \o <<index_filename>>,
                       PagesDir \o <<"gubernia", "1", index_filename>>} |->
                   Lit("stale")]]

InitialFs == { [dirs |-> {<<>>}, files |-> <<>>], StaleFs }

\* a store of g, u, v, l rows per level with the given parents and contents
Store(g, u, v, l, pu, pv, pl, soc, cnt) ==
    [gubernia |-> {[id |-> k, name |-> NameOf("gubernia", k)] : k \in 1..g},
     uezd     |-> {[id |-> k, name |-> NameOf("uezd", k), gub_id |-> pu[k]] :
                      k \in 1..u},
     volost   |-> {[id |-> k, name |-> NameOf("volost", k), uezd_id |-> pv[k]] :
                      k \in 1..v},
     locality |-> {[id |-> k, name |-> NameOf("locality", k), volost_id |-> pl[k],
                    society_id |-> soc[k]] : k \in 1..l},
     count    |-> UNION { {[locality_id |-> k, category_id |-> c,
                            count |-> CountOf(k, c), comment |-> cnt[k][c]] :
                              c \in DOMAIN cnt[k]} : k \in 1..l }]

\* the count rows of one locality: a comment per recorded category
CountRows(cats, comments) ==
    UNION { [S -> comments] : S \in {T \in SUBSET cats : Cardinality(T) <= MaxCounts} }

InitStore(maxn, socs, cats, comments) ==
    \E g \in 0..maxn : \E u \in 0..(maxn - g) : \E v \in 0..(maxn - g - u) :
    \E l \in 0..(maxn - g - u - v) :
    \E pu \in [1..u -> 1..g] : \E pv \in [1..v -> 1..u] : \E pl \in [1..l -> 1..v] :
    \E soc \in [1..l -> socs] : \E cnt \in [1..l -> CountRows(cats, comments)] :
        db = Store(g, u, v, l, pu, pv, pl, soc, cnt)

InitProcess ==
    /\ \E fs \in InitialFs : dirs = fs.dirs /\ files = fs.files
    /\ stack = <<>>
    /\ status = "init"
    /\ runs = 0

\* any tree of at most MaxNodes rows; localities with or without a society
\* and with at most one count row
Init ==
    /\ InitStore(MaxNodes, {0, 1}, {1}, {NULL})
    /\ InitProcess

Spec == Init /\ [][Next]_vars

\* one gubernia, uezd, volost and locality; the locality with any society and
\* any count rows of at most MaxCounts categories, with any comments
InitSheet ==
    /\ \E soc \in {0} \cup {x.id : x \in society} :
       \E cnt \in CountRows(CategoryIds, Comments) :
           db = Store(1, 1, 1, 1, <<1>>, <<1>>, <<1>>, <<soc>>, <<cnt>>)
    /\ InitProcess

SpecSheet == InitSheet /\ [][Next]_vars

(***************************************************************************)
(* What the claims speak of: the nodes of the store, where the layout of   *)
(* section 6 of the specification puts each, and how a written document is *)
(* read back.                                                              *)
(***************************************************************************)
Row(table, id) == CHOOSE r \in table : r.id = id

GubDirOf(g) == PagesDir \o <<"gubernia", ToString(g.id)>>

UezdDirOf(u) == GubDirOf(Row(db.gubernia, u.gub_id)) \o <<"uezd", ToString(u.id)>>

VolostDirOf(v) == UezdDirOf(Row(db.uezd, v.uezd_id)) \o <<"volost", ToString(v.id)>>

LocalityDirOf(l) ==
    VolostDirOf(Row(db.volost, l.volost_id)) \o <<"locality", ToString(l.id)>>

\* the nodes that get a tree-index document, each with its children in the
\* order the child query returns them
TreeNodes ==
    { [dir |-> PagesDir, title |-> root_title, kids |-> select_gubernias(db),
       seg |-> "gubernia", depth |-> 2] }
    \cup { [dir |-> GubDirOf(g), title |-> g.name, kids |-> select_uezds(db, g.id),
            seg |-> "uezd", depth |-> 2] : g \in db.gubernia }
    \cup { [dir |-> UezdDirOf(u), title |-> u.name, kids |-> select_volosts(db, u.id),
            seg |-> "volost", depth |-> 1] : u \in db.uezd }
    \cup { [dir |-> VolostDirOf(v), title |-> v.name,
            kids |-> select_localities(db, v.id),
            seg |-> "locality", depth |-> 1] : v \in db.volost }

LocalityNodes ==
    { [dir |-> LocalityDirOf(l), id |-> l.id, name |-> l.name,
       society_id |-> l.society_id, counts |-> select_counts(db, l.id)] :
         l \in db.locality }

NodeDirs == {n.dir : n \in TreeNodes} \cup {l.dir : l \in LocalityNodes}

DocOf(dir) == dir \o <<index_filename>>

RootDoc == DocOf(PagesDir)

UnderRoot(paths) == {p \in paths : IsPrefix(PagesDir, p)}

Below(dir, paths) == {p \in paths : p # dir /\ IsPrefix(dir, p)}

\* the member references of a tree-index document, as <<segment, id>> pairs
MemberRefs(text) ==
    LET refs == SelectSeq(text, LAMBDA ln : /\ Len(ln) = 6
                                            /\ ln[1] = Margin3
                                            /\ ln[3] = "/"
                                            /\ ln[5] = "/"
                                            /\ ln[6] = "index")
    IN  [k \in DOMAIN refs |-> <<refs[k][2], refs[k][4]>>]

\* the document a member reference of the page in dir points to
RefTarget(dir, ref) == dir \o <<ref[1], ref[2], "index" \o ".rst">>

HasLine(text, ln) == \E k \in DOMAIN text : text[k] = ln

\* where the rows of the list-table of a data-table document start
RowStarts(text) ==
    SelectSeq([k \in DOMAIN text |-> k],
              LAMBDA k : /\ Len(text[k]) >= 3
                         /\ text[k][1] = Margin3
                         /\ text[k][2] = "* - ")

\* the footnote entries of a data-table document
FootEntries(text) ==
    SelectSeq(text, LAMBDA ln : /\ Len(ln) >= 4
                                /\ ln[1] = Margin3
                                /\ ln[2] = "("
                                /\ ln[4] = "*) ")

\* the line below the underlined "Selskoe obshchestvo" heading
CommunityLine(text) ==
    text[(CHOOSE k \in DOMAIN text : text[k] = <<"Selskoe obshchestvo">>) + 2]

\* the locality documents that the current run has written
WrittenSheets == {l \in LocalityNodes : runs >= 1 /\ DocOf(l.dir) \in DOMAIN files}

(***************************************************************************)
(* Properties                                                              *)
(***************************************************************************)
\* the count cell of the table row of count row r, with or without the marker
CountCell(r, marked) ==
    <<Margin3, "  - ", ToString(r.count)>> \o (IF marked THEN <<"*">> ELSE <<>>)

\* C2: the data-table document of a locality with count rows has exactly one
\* table row per count row, in the order the rows were returned (by category
\* name), each holding its row's category and count, and the rows are numbered
\* 1, 2, ..., n whichever rows carry comments.
C2Theorem ==
    \A l \in WrittenSheets :
        l.counts # <<>> =>
            LET text == files[DocOf(l.dir)]
                starts == RowStarts(text)
            IN  /\ Len(starts) = Len(l.counts)
                /\ \A k \in DOMAIN starts :
                      /\ text[starts[k]] = <<Margin3, "* - ", ToString(k)>>
                      /\ text[starts[k] + 1] =
                             <<Margin3, "  - ">> \o l.counts[k].category[1]
                      /\ \E marked \in BOOLEAN :
                             text[starts[k] + 2] = CountCell(l.counts[k], marked)
                /\ \A k \in 1..(Len(l.counts) - 1) :
                      (Row(category, CHOOSE c \in CategoryIds :
                               Row(category, c).name = l.counts[k].category)).key
                      < (Row(category, CHOOSE c \in CategoryIds :
                               Row(category, c).name = l.counts[k + 1].category)).key

\* a data-table document of MaxCounts rows, a commented row not the last one
C2Witness ==
    \E l \in WrittenSheets :
        /\ Len(l.counts) >= 2
        /\ l.counts[1].comment # NULL
        /\ l.counts[Len(l.counts)].comment = NULL

\* the rows with a comment, as the claim counts them: the comment is there and
\* is not empty
NonEmptyComment(r) == r.comment # NULL /\ r.comment # EmptyStr

\* C3: in the data-table document of a locality the footnote entries are as
\* many as the count rows whose comment is not empty, they are numbered 1..k in
\* the order of their rows, exactly the rows that produced a footnote carry the
\* marker after their count, and without commented rows there is no footnote
\* block.
C3Claim ==
    \A l \in WrittenSheets :
        l.counts # <<>> =>
            LET text == files[DocOf(l.dir)]
                starts == RowStarts(text)
                notes == FootEntries(text)
                commented == SelectSeq(l.counts, NonEmptyComment)
            IN  /\ Len(notes) = Len(commented)
                /\ \A k \in DOMAIN notes :
                      /\ notes[k][3] = ToString(k)
                      /\ k <= Len(commented)
                      /\ SubSeq(notes[k], 5, Len(notes[k])) = commented[k].comment[1]
                /\ \A k \in DOMAIN starts :
                      k <= Len(l.counts) =>
                          text[starts[k] + 2] =
                              CountCell(l.counts[k], NonEmptyComment(l.counts[k]))
                /\ (commented = <<>>) => ~HasLine(text, <<".. note:: ">>)

\* C4 as claimed: the community line of a locality document is the "not
\* specified" label when the locality has no community and the name of the
\* community otherwise.
C4Claim ==
    \A l \in WrittenSheets :
        CommunityLine(files[DocOf(l.dir)]) =
            IF \E x \in society : x.id = l.society_id /\ x.name # NULL
            THEN Row(society, l.society_id).name[1]
            ELSE undefined_label[1]

\* C4 as amended: the community line of a locality document, data-table or
\* empty-data, is the "not specified" label followed by a full stop when the
\* locality has no community or the name of its community is NULL or empty,
\* and the name of the community followed by a full stop otherwise.
C4Theorem ==
    \A l \in WrittenSheets :
        CommunityLine(files[DocOf(l.dir)]) =
            IF /\ \E x \in society : x.id = l.society_id
               /\ Row(society, l.society_id).name \notin {NULL, EmptyStr}
            THEN Row(society, l.society_id).name[1] \o <<".">>
            ELSE undefined_label[1] \o <<".">>

\* a written document of a locality whose community has an empty name
C4Witness ==
    \E l \in WrittenSheets :
        /\ \E x \in society : x.id = l.society_id /\ x.name = EmptyStr
        /\ status = "exit0"

IsEmptyDataDoc(text) ==
    /\ HasLine(text, <<NoDataSentence>>)
    /\ ~HasLine(text, <<".. list-table::">>)
    /\ RowStarts(text) = <<>>
    /\ ~HasLine(text, <<".. note:: ">>)

IsDataTableDoc(text) ==
    /\ ~HasLine(text, <<NoDataSentence>>)
    /\ HasLine(text, <<".. list-table::">>)
    /\ RowStarts(text) # <<>>

\* C5: a locality gets the empty-data document (the "no data" sentence, no
\* table, no footnote block) exactly when it has no count row and the
\* data-table document when it has one or more; either way index.rst is the
\* one document written for it.
C5Theorem ==
    \A l \in WrittenSheets :
        LET text == files[DocOf(l.dir)]
        IN  /\ IsEmptyDataDoc(text) <=> (l.counts = <<>>)
            /\ IsDataTableDoc(text) <=> (l.counts # <<>>)
            /\ Below(l.dir, DOMAIN files) = {DocOf(l.dir)}

\* the walk has finished and the locality has no count row
C5Witness ==
    /\ status = "exit0"
    /\ \E l \in WrittenSheets : l.counts = <<>>

\* the node directories and the segment directories between them
ExpectedDirs ==
    UnderRoot(UNION { {SubSeq(d, 1, k) : k \in 0..Len(d)} : d \in NodeDirs })

RECURSIVE MembersOf(_, _, _)
\* the members list of a page with the children kids[k..]
MembersOf(kids, seg, k) ==
    IF k > Len(kids) THEN EmptyStr
    ELSE StrCat(member_ref(seg, kids[k].id), MembersOf(kids, seg, k + 1))

\* what the store alone says the document at p holds
ExpectedDoc(p) ==
    IF \E n \in TreeNodes : DocOf(n.dir) = p
    THEN LET n == CHOOSE n \in TreeNodes : DocOf(n.dir) = p
         IN  tree_rst(n.title, MembersOf(n.kids, n.seg, 1), n.depth)
    ELSE LET l == CHOOSE l \in LocalityNodes : DocOf(l.dir) = p
         IN  datasheet_rst(l.name, select_society_name(db, l.id), l.counts)

\* C6: every completed run, the first and the second alike, leaves below the
\* root the paths and the contents that the store alone determines (and a run
\* that dies on its write leaves nothing there, each time); a start leaves
\* nothing of an earlier run below the root, and no directory the walk is
\* about to create is there already.
C6Theorem ==
    /\ status = "exit0" =>
          /\ UnderRoot(DOMAIN files) = {DocOf(d) : d \in NodeDirs}
          /\ \A p \in UnderRoot(DOMAIN files) : files[p] = ExpectedDoc(p)
          /\ UnderRoot(dirs) = ExpectedDirs
    /\ (status = "running" /\ Len(stack) = 1 /\ Top.i = 1) =>
          /\ UnderRoot(dirs) = {}
          /\ UnderRoot(DOMAIN files) = {}
    /\ status = "FileNotFoundError" =>
          /\ UnderRoot(dirs) = {}
          /\ UnderRoot(DOMAIN files) = {}
    /\ (status = "running" /\ stack # <<>> /\ Top.i <= Len(Top.rows)) =>
          Resolve(child_dir_of(Top)) \notin dirs

\* the second run has completed, over a store with localities
C6Witness ==
    /\ runs = 2
    /\ status = "exit0"
    /\ db.locality # {}
    /\ Cardinality(db.gubernia) >= 2

\* C7: a run in which no directory creation and no query fails ends normally
\* with <root>/index.rst written, whatever the store holds; no write finds its
\* directory missing.
C7Claim ==
    status \notin {"init", "running", "exit1", "mariadb.Error"} =>
        /\ status = "exit0"
        /\ RootDoc \in DOMAIN files

\* C8: the members list of every tree-index document has one reference per
\* child the child query returns, in that order, of the form
\* <segment>/<child id>/index; a node without children has an empty list; after
\* a completed run every reference resolves to a document on disk and every
\* document but the root's is referenced.
C8Theorem ==
    runs >= 1 =>
        /\ \A n \in TreeNodes :
              DocOf(n.dir) \in DOMAIN files =>
                  LET refs == MemberRefs(files[DocOf(n.dir)])
                  IN  /\ Len(refs) = Len(n.kids)
                      /\ \A k \in DOMAIN refs :
                            /\ k <= Len(n.kids)
                            /\ refs[k] = <<n.seg, ToString(n.kids[k].id)>>
                            /\ RefTarget(n.dir, refs[k]) \in {DocOf(d) : d \in NodeDirs}
                            /\ status = "exit0" =>
                                   RefTarget(n.dir, refs[k]) \in DOMAIN files
        /\ status = "exit0" =>
              \A p \in UnderRoot(DOMAIN files) \ {RootDoc} :
                  \E n \in TreeNodes :
                      /\ DocOf(n.dir) \in DOMAIN files
                      /\ \E k \in DOMAIN MemberRefs(files[DocOf(n.dir)]) :
                            RefTarget(n.dir, MemberRefs(files[DocOf(n.dir)])[k]) = p

\* a completed run; some page lists two children, not in the order of their ids
C8Witness ==
    /\ status = "exit0"
    /\ \E n \in TreeNodes :
          /\ Len(n.kids) >= 2
          /\ n.kids[1].id > n.kids[2].id
          /\ DocOf(n.dir) \in DOMAIN files

\* a node's document is there only when those of all nodes below it are
C9PostOrder ==
    runs >= 1 =>
        \A n \in TreeNodes :
            DocOf(n.dir) \in DOMAIN files =>
                \A d \in NodeDirs : IsPrefix(n.dir, d) => DocOf(d) \in DOMAIN files

\* the node above the node at d
NodeAbove(d) == SubSeq(d, 1, Len(d) - 2)

\* within a run: a node's directory appears when the directory of the node
\* above is there (for a gubernia, the root, which the same call may create);
\* a document appears when those of all nodes below are there; nothing is
\* written once the root's document is
C9Step ==
    runs' = runs =>
        /\ \A d \in NodeDirs \ {PagesDir} :
              (d \notin dirs /\ d \in dirs') =>
                  /\ NodeAbove(d) \in dirs'
                  /\ NodeAbove(d) # PagesDir => NodeAbove(d) \in dirs
        /\ \A d \in NodeDirs :
              (DocOf(d) \notin DOMAIN files /\ DocOf(d) \in DOMAIN files') =>
                  \A e \in NodeDirs :
                      (e # d /\ IsPrefix(d, e)) => DocOf(e) \in DOMAIN files
        /\ RootDoc \in DOMAIN files => files' = files
        /\ (RootDoc \notin DOMAIN files /\ RootDoc \in DOMAIN files') =>
              status' = "exit0"

\* C9: the walk writes in post-order: a node's directory is created before
\* the directories of the nodes below it, a node's index document is written
\* after those of all nodes below it, <root>/index.rst is the last file of a
\* run, and where it exists after the clear every other document exists.
C9Theorem == []C9PostOrder /\ [][C9Step]_vars

\* midway: a gubernia's subtree is written, the root's document is not yet
C9Witness ==
    /\ runs >= 1
    /\ status = "running"
    /\ RootDoc \notin DOMAIN files
    /\ \E g \in db.gubernia :
          /\ DocOf(GubDirOf(g)) \in DOMAIN files
          /\ select_uezds(db, g.id) # <<>>
    /\ Len(stack) >= 2

\* the failing call removes nothing and writes nothing; the process that
\* exited takes no further step (what follows is a new start)
C10Step ==
    /\ (status = "running" /\ status' = "exit1") =>
          /\ files' = files
          /\ dirs \subseteq dirs'
          /\ Resolve(child_dir_of(Top)) \notin dirs' \ dirs
    /\ status = "exit1" => runs' = runs + 1

\* after the exit neither the node whose directory failed nor the nodes above
\* it, the root included, have an index document
C10Aborted ==
    status = "exit1" =>
        /\ \A k \in DOMAIN stack : Resolve(index_path(stack[k])) \notin DOMAIN files
        /\ DocOf(Resolve(child_dir_of(Top))) \notin DOMAIN files

\* C10: when a directory creation fails the run ends there with exit status
\* 1: nothing is created or written afterwards, no index of the failing node
\* or of a node above it is written, nothing is cleaned up, and what was
\* written before stays as it was.
C10Theorem == []C10Aborted /\ [][C10Step]_vars

\* a creation failed below the first level after documents had been written
C10Witness ==
    /\ status = "exit1"
    /\ Len(stack) >= 2
    /\ UnderRoot(DOMAIN files) # {}

====
